---- MODULE Spec2Model ----
(***************************************************************************)
(* Workspace synchronization engine of the playground page                 *)
(* (MainPlaygroundPage) together with the path resolver of                 *)
(* features/playground/libs.                                               *)
(*                                                                         *)
(* Strings that the code takes apart or puts together (names, ids, paths)  *)
(* are sequences of one-character strings, so that join("/"), split("/"),  *)
(* template literals and startsWith are computed as the code computes      *)
(* them. File contents are only ever compared, so they are plain strings.  *)
(*                                                                         *)
(* The page is a React function component: a handler reads the state of    *)
(* the render that created it. Handlers bound directly to the UI are       *)
(* re-created on every render and therefore read the current state at the  *)
(* moment they are invoked; the part of an async handler that runs after   *)
(* an await, a timer callback, and a memoized callback keep the values     *)
(* they captured. Captured values are carried in the task and timer        *)
(* records below.                                                          *)
(***************************************************************************)
EXTENDS Integers, Sequences, FiniteSets, TLC

VARIABLES
    templateData,        \* the in-memory Tree (root TemplateFolder)
    openFiles,           \* sequence of OpenFile records, in open order
    activeFileId,        \* id of the active buffer, or Null
    lastSyncedContent,   \* the SyncWatermark map: id -> content
    confirmationDialog,  \* the Confirmation Gate
    syncTimeout,         \* pending mirror timer (<<>> or one captured closure)
    autoSaveTimeout,     \* pending auto-save timer (<<>> or one captured closure)
    autoSaveMemo,        \* what the memoized scheduleAutoSave has captured, and
                         \* (key) what the keydown listener has
    tasks,               \* async handler invocations suspended on an await
    batches,             \* callers suspended on Promise.all / await handleSave
    sandbox,             \* the WebContainer filesystem
    store,               \* the Tree last persisted by SaveUpdatedCode
    used,                \* how much of each bound the run has consumed
    ev                   \* the handler step that produced this state

vars == <<templateData, openFiles, activeFileId, lastSyncedContent,
          confirmationDialog, syncTimeout, autoSaveTimeout, autoSaveMemo,
          tasks, batches, sandbox, store, used, ev>>

----------------------------------------------------------------------------
(* Bounds of the model *)

\* User operations in one run
MaxOps == 5
\* Structural operations among them
MaxStructOps == 1
\* Rejected sandbox or store calls in one run
MaxFailures == 1

----------------------------------------------------------------------------
(* Strings *)

Null == <<>>

Range(s) == {s[i] : i \in 1..Len(s)}

\* parts.join("/")
RECURSIVE Join(_)
Join(parts) ==
    IF parts = <<>> THEN <<>>
    ELSE IF Len(parts) = 1 THEN parts[1]
    ELSE parts[1] \o <<"/">> \o Join(Tail(parts))

\* s.split("/")
RECURSIVE Split(_)
Split(s) ==
    IF \A i \in 1..Len(s) : s[i] # "/" THEN <<s>>
    ELSE LET k == CHOOSE i \in 1..Len(s) :
                      s[i] = "/" /\ \A j \in 1..(i - 1) : s[j] # "/"
         IN  <<SubSeq(s, 1, k - 1)>> \o Split(SubSeq(s, k + 1, Len(s)))

\* s.startsWith(prefix)
StartsWith(s, prefix) ==
    Len(prefix) <= Len(s) /\ SubSeq(s, 1, Len(prefix)) = prefix

----------------------------------------------------------------------------
(* Tree Model and Path Resolver *)

IsFolder(item) == "folderName" \in DOMAIN item

SameFile(item, file) ==
    item.filename = file.filename /\ item.fileExtension = file.fileExtension

\* A leaf name that always carries the dot
LeafNameDotted(item) == item.filename \o <<".">> \o item.fileExtension

\* item.filename + (item.fileExtension ? "." + item.fileExtension : "")
LeafName(item) ==
    item.filename \o
        (IF item.fileExtension # <<>> THEN <<".">> \o item.fileExtension ELSE <<>>)

\* findFilePath over the items of one folder, from item i on: <<>> for null,
\* <<path>> for a string. "if (res) return res" passes over null and over
\* the empty string.
RECURSIVE findFilePathFrom(_, _, _, _)
findFilePathFrom(file, items, i, pathSoFar) ==
    IF i > Len(items) THEN <<>>
    ELSE LET item == items[i] IN
         IF IsFolder(item)
         THEN LET res == findFilePathFrom(file, item.items, 1,
                                          Append(pathSoFar, item.folderName))
              IN  IF res # <<>> /\ res[1] # <<>> THEN res
                  ELSE findFilePathFrom(file, items, i + 1, pathSoFar)
         ELSE IF SameFile(item, file)
              THEN << Join(Append(pathSoFar, LeafName(item))) >>
              ELSE findFilePathFrom(file, items, i + 1, pathSoFar)

\* findFilePath(file, folder) of the libs module: null or a string
findFilePathOrNull(file, folder) == findFilePathFrom(file, folder.items, 1, <<>>)

\* findFilePath as its callers in the component read it: they test the
\* result for truthiness, so null and the empty path are both <<>>
findFilePath(file, folder) ==
    IF findFilePathOrNull(file, folder) = <<>> THEN Null
    ELSE findFilePathOrNull(file, folder)[1]

\* s.replace(/^\/+/, "")
RECURSIVE StripLeadingSlashes(_)
StripLeadingSlashes(s) ==
    IF s # <<>> /\ s[1] = "/" THEN StripLeadingSlashes(Tail(s)) ELSE s

Whitespace == {" ", "\t", "\n", "\r"}

\* s.trim()
RECURSIVE Trim(_)
Trim(s) ==
    IF s # <<>> /\ s[1] \in Whitespace THEN Trim(Tail(s))
    ELSE IF s # <<>> /\ s[Len(s)] \in Whitespace THEN Trim(SubSeq(s, 1, Len(s) - 1))
    ELSE s

\* generateFileId(file, rootFolder) of the libs module
generateFileIdOfLibs(file, rootFolder) ==
    LET found == findFilePathOrNull(file, rootFolder)
        path == IF found = <<>> THEN <<>> ELSE StripLeadingSlashes(found[1])
        extension == Trim(file.fileExtension)
        extensionSuffix == IF extension # <<>> THEN <<".">> \o extension ELSE <<>>
    IN  IF path # <<>>
        THEN path \o <<"/">> \o file.filename \o extensionSuffix
        ELSE file.filename \o extensionSuffix

\* The component's generateFileId
generateFileId(file) == file.filename \o <<".">> \o file.fileExtension

\* currentFolder.items.find(item => "folderName" in item && item.folderName === part)
FindFolder(items, part) ==
    LET hits == {i \in 1..Len(items) :
                    IsFolder(items[i]) /\ items[i].folderName = part}
    IN  IF hits = {} THEN 0
        ELSE CHOOSE i \in hits : \A j \in hits : i <= j

\* The walk "for (const part of pathParts)": does every part resolve?
RECURSIVE PathResolves(_, _)
PathResolves(folder, pathParts) ==
    \/ pathParts = <<>>
    \/ LET k == FindFolder(folder.items, pathParts[1])
       IN  k # 0 /\ PathResolves(folder.items[k], Tail(pathParts))

\* The items of the folder the walk ends in
RECURSIVE ItemsAt(_, _)
ItemsAt(folder, pathParts) ==
    IF pathParts = <<>> THEN folder.items
    ELSE ItemsAt(folder.items[FindFolder(folder.items, pathParts[1])],
                 Tail(pathParts))

\* The copy of the tree with "currentFolder.items = newItems" applied
RECURSIVE WithItemsAt(_, _, _)
WithItemsAt(folder, pathParts, newItems) ==
    IF pathParts = <<>> THEN [folder EXCEPT !.items = newItems]
    ELSE LET k == FindFolder(folder.items, pathParts[1])
         IN  [folder EXCEPT
                  !.items[k] = WithItemsAt(folder.items[k], Tail(pathParts),
                                           newItems)]

\* parentPath.split("/"), with no walk at all when parentPath is empty
PathParts(parentPath) == IF parentPath = <<>> THEN <<>> ELSE Split(parentPath)

\* All File nodes of a tree (what the explorer can hand to a handler)
RECURSIVE FilesOf(_)
FilesOf(folder) ==
    UNION {IF IsFolder(folder.items[i]) THEN FilesOf(folder.items[i])
           ELSE {folder.items[i]} : i \in 1..Len(folder.items)}

\* The parent paths at which a File node with this identity sits
RECURSIVE ParentPathsOf(_, _, _)
ParentPathsOf(file, folder, pathSoFar) ==
    UNION {LET item == folder.items[i] IN
           IF IsFolder(item)
           THEN ParentPathsOf(file, item, Append(pathSoFar, item.folderName))
           ELSE IF item = file THEN {Join(pathSoFar)} ELSE {}
           : i \in 1..Len(folder.items)}

\* All folders below the root, as <<parentPath, folder>>
RECURSIVE FoldersOf(_, _)
FoldersOf(folder, pathSoFar) ==
    UNION {LET item == folder.items[i] IN
           IF IsFolder(item)
           THEN {<<Join(pathSoFar), item>>}
                \cup FoldersOf(item, Append(pathSoFar, item.folderName))
           ELSE {}
           : i \in 1..Len(folder.items)}

RECURSIVE NodeCount(_)
NodeCount(folder) ==
    LET n[i \in 0..Len(folder.items)] ==
            IF i = 0 THEN 0
            ELSE n[i - 1] + (IF IsFolder(folder.items[i])
                             THEN 1 + NodeCount(folder.items[i]) ELSE 1)
    IN  n[Len(folder.items)]

----------------------------------------------------------------------------
(* Tree mutations of the Mutation Engine and of save *)

\* deleteFromItems of handleDeleteFile
RECURSIVE deleteFromItems(_, _)
deleteFromItems(items, file) ==
    LET kept == SelectSeq(items, LAMBDA item :
                    IsFolder(item) \/ ~SameFile(item, file))
    IN  [i \in 1..Len(kept) |->
            IF IsFolder(kept[i])
            THEN [kept[i] EXCEPT !.items = deleteFromItems(kept[i].items, file)]
            ELSE kept[i]]

\* The filter handleDeleteFile applies to the items of a named parent folder
DeleteFileFilter(items, file) ==
    SelectSeq(items, LAMBDA item : IsFolder(item) \/ ~SameFile(item, file))

\* The filter handleDeleteFolder applies to the items of the parent folder
DeleteFolderFilter(items, folder) ==
    SelectSeq(items, LAMBDA item :
        IF IsFolder(item) THEN item.folderName # folder.folderName ELSE TRUE)

\* updateFileInItems of handleRenameFile
RECURSIVE updateFileInItems(_, _, _, _)
updateFileInItems(items, file, newFilename, newExtension) ==
    [i \in 1..Len(items) |->
        IF IsFolder(items[i])
        THEN [items[i] EXCEPT !.items =
                  updateFileInItems(items[i].items, file, newFilename, newExtension)]
        ELSE IF SameFile(items[i], file)
             THEN [items[i] EXCEPT !.filename = newFilename,
                                   !.fileExtension = newExtension]
             ELSE items[i]]

\* The map handleRenameFolder applies to the items of the parent folder
RenameFolderMap(items, folder, newFolderName) ==
    [i \in 1..Len(items) |->
        IF IsFolder(items[i]) /\ items[i].folderName = folder.folderName
        THEN [items[i] EXCEPT !.folderName = newFolderName]
        ELSE items[i]]

\* updateFileContent of handleSave
RECURSIVE updateFileContent(_, _)
updateFileContent(items, fileToSave) ==
    [i \in 1..Len(items) |->
        IF IsFolder(items[i])
        THEN [items[i] EXCEPT !.items = updateFileContent(items[i].items, fileToSave)]
        ELSE IF SameFile(items[i], fileToSave)
             THEN [items[i] EXCEPT !.content = fileToSave.content]
             ELSE items[i]]

\* updatedTemplateData of handleSave
SavedTree(tree, fileToSave) ==
    [tree EXCEPT !.items = updateFileContent(tree.items, fileToSave)]

\* updatedTemplateData of handleAddFile / handleAddFolder (push)
AddedTree(tree, node, parentPath) ==
    WithItemsAt(tree, PathParts(parentPath),
                Append(ItemsAt(tree, PathParts(parentPath)), node))

\* updatedTemplateData of handleDeleteFile
DeletedFileTree(tree, file, parentPath) ==
    IF parentPath = <<>>
    THEN [tree EXCEPT !.items = deleteFromItems(tree.items, file)]
    ELSE WithItemsAt(tree, Split(parentPath),
                     DeleteFileFilter(ItemsAt(tree, Split(parentPath)), file))

\* updatedTemplateData of handleDeleteFolder
DeletedFolderTree(tree, folder, parentPath) ==
    WithItemsAt(tree, PathParts(parentPath),
                DeleteFolderFilter(ItemsAt(tree, PathParts(parentPath)), folder))

\* updatedTemplateData of handleRenameFile
RenamedFileTree(tree, file, newFilename, newExtension, parentPath) ==
    WithItemsAt(tree, PathParts(parentPath),
                updateFileInItems(ItemsAt(tree, PathParts(parentPath)), file,
                                  newFilename, newExtension))

\* updatedTemplateData of handleRenameFolder
RenamedFolderTree(tree, folder, newFolderName, parentPath) ==
    WithItemsAt(tree, PathParts(parentPath),
                RenameFolderMap(ItemsAt(tree, PathParts(parentPath)), folder,
                                newFolderName))

\* parentPath ? `${parentPath}/${name}` : name
ChildPath(parentPath, name) ==
    IF parentPath # <<>> THEN parentPath \o <<"/">> \o name ELSE name

----------------------------------------------------------------------------
(* Buffer Registry *)

\* A new buffer that was flagged as having unsaved changes
NewOpenFileDirty(file) ==
    [filename |-> file.filename, fileExtension |-> file.fileExtension,
     content |-> file.content, id |-> generateFileId(file),
     hasUnsavedChanges |-> TRUE, originalContent |-> file.content]

\* newOpenFile of openFile
NewOpenFile(file) ==
    [filename |-> file.filename, fileExtension |-> file.fileExtension,
     content |-> file.content, id |-> generateFileId(file),
     hasUnsavedChanges |-> FALSE, originalContent |-> file.content]

\* files.find(f => f.id === id), as <<>> or <<f>>
FindOpen(files, id) ==
    LET hits == {i \in 1..Len(files) : files[i].id = id}
    IN  IF hits = {} THEN <<>>
        ELSE <<files[CHOOSE i \in hits : \A j \in hits : i <= j]>>

IsOpen(files, id) == \E i \in 1..Len(files) : files[i].id = id

\* lastSyncedContent.delete(id)
MapDelete(m, id) == [k \in DOMAIN m \ {id} |-> m[k]]

\* A set that was left out
MapSetOmitted(m, id, content) == m

\* lastSyncedContent.set(id, content)
MapSet(m, id, content) == [k \in DOMAIN m \cup {id} |-> IF k = id THEN content ELSE m[k]]

\* The registry part of the state, as the handlers below pass it along
Registry == [openFiles |-> openFiles, activeFileId |-> activeFileId,
             lastSyncedContent |-> lastSyncedContent]

\* An open that made a new buffer without looking for an existing one
openFileAlwaysAppends(R, file) ==
    [R EXCEPT !.openFiles = Append(R.openFiles, NewOpenFile(file)),
              !.activeFileId = generateFileId(file)]

\* openFile, run by a handler of the current render
openFile(R, file) ==
    IF IsOpen(R.openFiles, generateFileId(file))
    THEN [R EXCEPT !.activeFileId = generateFileId(file)]
    ELSE [R EXCEPT !.openFiles = Append(R.openFiles, NewOpenFile(file)),
                   !.activeFileId = generateFileId(file)]

\* The argument of setEditorContent in openFile: what the editor shows
OpenedContent(files, file) ==
    IF IsOpen(files, generateFileId(file))
    THEN FindOpen(files, generateFileId(file))[1].content
    ELSE file.content

\* closeFileForce(fileId), run by a handler whose closure holds closureActiveId
closeFileForce(R, closureActiveId, fileId) ==
    LET newFiles == SelectSeq(R.openFiles, LAMBDA f : f.id # fileId)
    IN  [openFiles |-> newFiles,
         activeFileId |->
             IF closureActiveId = fileId
             THEN (IF newFiles = <<>> THEN Null ELSE newFiles[Len(newFiles)].id)
             ELSE R.activeFileId,
         lastSyncedContent |-> MapDelete(R.lastSyncedContent, fileId)]

\* The clearing done by closeAllFiles and by its dialog actions
ClearedRegistry ==
    [openFiles |-> <<>>, activeFileId |-> Null, lastSyncedContent |-> <<>>]

\* The map of handleEditorChange
EditedFiles(files, id, value) ==
    [i \in 1..Len(files) |->
        IF files[i].id = id
        THEN [files[i] EXCEPT !.content = value,
                              !.hasUnsavedChanges = (value # files[i].originalContent)]
        ELSE files[i]]

\* The map at the end of a successful handleSave
MarkSaved(files, targetFileId) ==
    [i \in 1..Len(files) |->
        IF files[i].id = targetFileId
        THEN [files[i] EXCEPT !.hasUnsavedChanges = FALSE,
                              !.originalContent = files[i].content]
        ELSE files[i]]

\* A catch block that marked the buffer saved all the same
SaveFailedMarksSaved(files, targetFileId) == MarkSaved(files, targetFileId)

\* The catch block of handleSave: only a toast, no state is touched
SaveFailed(files, targetFileId) == files

\* The map of handleRenameFile: { ...f, ...newFile, id: newFileId }, where
\* newFile = { ...file, filename, fileExtension } carries the content of the
\* File node the rename was invoked on
RenamedFiles(files, file, newFilename, newExtension) ==
    [i \in 1..Len(files) |->
        IF files[i].id = generateFileId(file)
        THEN [files[i] EXCEPT
                 !.filename = newFilename,
                 !.fileExtension = newExtension,
                 !.content = file.content,
                 !.id = newFilename \o <<".">> \o newExtension]
        ELSE files[i]]

\* The "Update sync tracking" block of handleRenameFile: if (content) ...
RenamedWatermark(m, oldFileId, newFileId) ==
    IF oldFileId \in DOMAIN m /\ m[oldFileId] # ""
    THEN MapDelete(MapSet(m, newFileId, m[oldFileId]), oldFileId)
    ELSE m

\* const activeFile = openFiles.find(f => f.id === activeFileId), as <<>> or <<f>>
ActiveFileOf(files, id) == FindOpen(files, id)

\* The keydown listener is installed by an effect with deps [activeFileId]:
\* its handleSave is the one of the render in which activeFileId last
\* changed, with the openFiles and the templateData of that render. Nothing
\* but the keyboard actions reads it: a specification without them starts it
\* as <<>> and it stays so.
KeyClosure(files2, active2, tree2) ==
    IF autoSaveMemo.key = <<>> \/ active2 = activeFileId
    THEN autoSaveMemo.key
    ELSE << [openFiles |-> files2, templateData |-> tree2,
             activeFileId |-> active2] >>

\* What the memoized scheduleAutoSave (deps [activeFile]) captures after a
\* step: it is re-created in the render in which the activeFile object
\* changed (touched: the ids whose buffer objects the step replaced)
Memo(files2, active2, tree2, touched) ==
    IF \/ ActiveFileOf(files2, active2) # ActiveFileOf(openFiles, activeFileId)
       \/ active2 \in touched
    THEN [activeFile |-> ActiveFileOf(files2, active2), templateData |-> tree2,
          key |-> KeyClosure(files2, active2, tree2)]
    ELSE [autoSaveMemo EXCEPT !.key = KeyClosure(files2, active2, tree2)]

\* The closure a timer set by scheduleAutoSave holds
AutoSaveClosure ==
    [activeFile |-> autoSaveMemo.activeFile,
     templateData |-> autoSaveMemo.templateData]

----------------------------------------------------------------------------
(* External collaborators: the sandbox filesystem and the persistent store *)

\* writeFile(path, content)
FsWrite(fs, path, content) == [fs EXCEPT !.files = MapSet(fs.files, path, content)]

\* removeFile(path)
FsRm(fs, path) == [fs EXCEPT !.files = MapDelete(fs.files, path)]

\* removeDirectory(path, recursive)
FsRmRecursive(fs, path) ==
    [files |-> [p \in {q \in DOMAIN fs.files : ~StartsWith(q, path \o <<"/">>)}
                    |-> fs.files[p]],
     dirs |-> {d \in fs.dirs : d # path /\ ~StartsWith(d, path \o <<"/">>)}]

\* makeDirectory(path, recursive)
FsMkdir(fs, path) == [fs EXCEPT !.dirs = fs.dirs \cup {path}]

\* The files of a tree at the paths of their nodes, as <<path, content>>
RECURSIVE MountedFiles(_, _)
MountedFiles(folder, pathSoFar) ==
    UNION {LET item == folder.items[i] IN
           IF IsFolder(item)
           THEN MountedFiles(item, Append(pathSoFar, item.folderName))
           ELSE {<<Join(Append(pathSoFar, LeafName(item))), item.content>>}
           : i \in 1..Len(folder.items)}

\* The sandbox as mounted from a tree when the session starts
Mounted(tree) ==
    [files |-> [p \in {m[1] : m \in MountedFiles(tree, <<>>)} |->
                   (CHOOSE m \in MountedFiles(tree, <<>>) : m[1] = p)[2]],
     dirs |-> {ChildPath(f[1], f[2].folderName) : f \in FoldersOf(tree, <<>>)}]

----------------------------------------------------------------------------
(* Inputs *)

Contents == {"x", "y"}

File(name, ext, content) ==
    [filename |-> name, fileExtension |-> ext, content |-> content]

Folder(name, items) == [folderName |-> name, items |-> items]

\* The project the session was loaded with
InitTree ==
    Folder(<<"R">>,
           << File(<<"a">>, <<"t">>, "x"),
              Folder(<<"s">>, << File(<<"b">>, <<"t">>, "x") >>) >>)

\* A project whose folder s holds a file and a subfolder with a file
FolderTree ==
    Folder(<<"R">>,
           << Folder(<<"s">>,
                     << File(<<"a">>, <<"t">>, "x"),
                        Folder(<<"u">>, << File(<<"b">>, <<"t">>, "x") >>) >>) >>)

\* Files, folders and trees for the path resolver on its own: names and
\* extensions that may be empty, the same identity in several folders
PathFiles == {File(n, e, "x") : n \in {<<>>, <<"a">>}, e \in {<<>>, <<"t">>}}

SeqsUpTo2(S) ==
    {<<>>} \cup {<<a>> : a \in S} \cup {<<a, b>> : a \in S, b \in S}

InnerFolders ==
    {Folder(n, <<>>) : n \in {<<>>, <<"s">>}}
    \cup {Folder(n, <<f>>) : n \in {<<>>, <<"s">>}, f \in PathFiles}

OuterFolders ==
    {Folder(<<"u">>, <<>>)}
    \cup {Folder(<<"u">>, <<m>>) : m \in PathFiles \cup InnerFolders}

PathTrees ==
    {Folder(<<"R">>, items) :
        items \in SeqsUpTo2(PathFiles \cup InnerFolders \cup OuterFolders)}

\* A project that already has a file of the name a rename can give
NamesakeTree ==
    Folder(<<"R">>,
           << File(<<"a">>, <<"t">>, "x"),
              Folder(<<"s">>, << File(<<"c">>, <<"t">>, "x") >>) >>)

\* A project with two sibling folders, the name of one starting with the name
\* of the other
PrefixTree ==
    Folder(<<"R">>,
           << Folder(<<"s">>, << File(<<"a">>, <<"t">>, "x") >>),
              Folder(<<"s", "x">>, << File(<<"b">>, <<"t">>, "x") >>) >>)

\* A project with files of one name and extension in two folders
TwinTree ==
    Folder(<<"R">>,
           << File(<<"a">>, <<"t">>, "x"),
              Folder(<<"s">>, << File(<<"a">>, <<"t">>, "y") >>) >>)

NewFiles == {File(<<"c">>, <<"t">>, "")}
NewFolders == {Folder(<<"d">>, <<>>)}
NewFilenames == {<<"c">>}
NewFolderNames == {<<"d">>}

\* A parent path with a segment that resolves to no folder
BadPath == <<"q">>

\* The parent paths a structural handler is invoked with
FolderPaths(tree) ==
    {<<>>} \cup {ChildPath(f[1], f[2].folderName) : f \in FoldersOf(tree, <<>>)}

----------------------------------------------------------------------------
(* Initial state: the project is loaded, nothing is open *)

NoDialog == [isOpen |-> FALSE, kind |-> "none"]

\* The state after the project tree has been loaded and mounted
InitWith(tree) ==
    /\ templateData = tree
    /\ openFiles = <<>>
    /\ activeFileId = Null
    /\ lastSyncedContent = <<>>
    /\ confirmationDialog = NoDialog
    /\ syncTimeout = <<>>
    /\ autoSaveTimeout = <<>>
    /\ autoSaveMemo = [activeFile |-> <<>>, templateData |-> tree, key |-> <<>>]
    /\ tasks = <<>>
    /\ batches = <<>>
    /\ sandbox = Mounted(tree)
    /\ store = tree
    /\ used = [ops |-> 0, structs |-> 0, fails |-> 0]
    /\ ev = [op |-> "init"]

Init == InitWith(InitTree)

\* The same state, with the keydown listener of the first render
InitKeys ==
    /\ templateData = InitTree
    /\ openFiles = <<>>
    /\ activeFileId = Null
    /\ lastSyncedContent = <<>>
    /\ confirmationDialog = NoDialog
    /\ syncTimeout = <<>>
    /\ autoSaveTimeout = <<>>
    /\ autoSaveMemo = [activeFile |-> <<>>, templateData |-> InitTree,
                       key |-> << [openFiles |-> <<>>, templateData |-> InitTree,
                                   activeFileId |-> Null] >>]
    /\ tasks = <<>>
    /\ batches = <<>>
    /\ sandbox = Mounted(InitTree)
    /\ store = InitTree
    /\ used = [ops |-> 0, structs |-> 0, fails |-> 0]
    /\ ev = [op |-> "init"]

\* The user can reach the page's controls (the dialog is modal)
Interactive == ~confirmationDialog.isOpen

\* A user operation / a rejected external call, counted against the bounds
Spend == used.ops < MaxOps /\ used' = [used EXCEPT !.ops = @ + 1]
Reject == used.fails < MaxFailures /\ used' = [used EXCEPT !.fails = @ + 1]

SetRegistry(R) ==
    /\ openFiles' = R.openFiles
    /\ activeFileId' = R.activeFileId
    /\ lastSyncedContent' = R.lastSyncedContent

----------------------------------------------------------------------------
(* Buffer Registry operations *)

\* handleFileSelect -> openFile
OpenFile ==
    \E file \in FilesOf(templateData) :
        /\ Interactive
        /\ SetRegistry(openFile(Registry, file))
        /\ autoSaveMemo' = Memo(openFiles', activeFileId', templateData, {})
        /\ Spend
        /\ ev' = [op |-> "openFile", id |-> generateFileId(file),
                  created |-> ~IsOpen(openFiles, generateFileId(file)),
                  file |-> file, shown |-> OpenedContent(openFiles, file)]
        /\ UNCHANGED <<templateData, confirmationDialog, syncTimeout,
                       autoSaveTimeout, tasks, batches, sandbox, store>>

\* Tabs onValueChange = setActiveFileId
SelectTab ==
    \E i \in 1..Len(openFiles) :
        /\ Interactive
        /\ openFiles[i].id # activeFileId
        /\ activeFileId' = openFiles[i].id
        /\ autoSaveMemo' = Memo(openFiles, activeFileId', templateData, {})
        /\ Spend
        /\ ev' = [op |-> "selectTab"]
        /\ UNCHANGED <<templateData, openFiles, lastSyncedContent,
                       confirmationDialog, syncTimeout, autoSaveTimeout, tasks,
                       batches, sandbox, store>>

\* The file debouncedSync is last called with inside the map of handleEditorChange
LastEdited(files, id) ==
    files[CHOOSE i \in 1..Len(files) :
              files[i].id = id /\ \A j \in 1..Len(files) : files[j].id = id => j <= i]

\* handleEditorChange(value), with debouncedSync and scheduleAutoSave
handleEditorChange ==
    \E value \in Contents :
        /\ Interactive
        /\ Spend
        /\ ActiveFileOf(openFiles, activeFileId) # <<>>
        /\ value # ActiveFileOf(openFiles, activeFileId)[1].content
        /\ openFiles' = EditedFiles(openFiles, activeFileId, value)
        /\ syncTimeout' = << [file |-> LastEdited(openFiles', activeFileId),
                              templateData |-> templateData] >>
        /\ autoSaveTimeout' = << AutoSaveClosure >>
        /\ autoSaveMemo' = Memo(openFiles', activeFileId, templateData, {activeFileId})
        /\ ev' = [op |-> "edit", id |-> activeFileId]
        /\ UNCHANGED <<templateData, activeFileId, lastSyncedContent,
                       confirmationDialog, tasks, batches, sandbox, store>>

\* handleEditorChange(""): the user deletes all the text of the active buffer
handleEditorChangeEmpty ==
    /\ Interactive
    /\ Spend
    /\ ActiveFileOf(openFiles, activeFileId) # <<>>
    /\ ActiveFileOf(openFiles, activeFileId)[1].content # ""
    /\ openFiles' = EditedFiles(openFiles, activeFileId, "")
    /\ syncTimeout' = << [file |-> LastEdited(openFiles', activeFileId),
                          templateData |-> templateData] >>
    /\ autoSaveTimeout' = << AutoSaveClosure >>
    /\ autoSaveMemo' = Memo(openFiles', activeFileId, templateData, {activeFileId})
    /\ ev' = [op |-> "edit", id |-> activeFileId]
    /\ UNCHANGED <<templateData, activeFileId, lastSyncedContent,
                   confirmationDialog, tasks, batches, sandbox, store>>

----------------------------------------------------------------------------
(* save: handleSave up to its first await, and its two continuations *)

RemoveAt(seq, i) == SubSeq(seq, 1, i - 1) \o SubSeq(seq, i + 1, Len(seq))

\* handleSave(targetFileId) run in a closure that holds tree and, in its
\* openFiles, fileToSave: the invocation as it stands at its first await
\* (writeFileSync when the file resolves in the updated tree, else
\* SaveUpdatedCode). batch is the caller awaiting it, 0 for none.
SaveTask(fileToSave, tree, batch) ==
    LET updatedTemplateData == SavedTree(tree, fileToSave)
        path == findFilePath(fileToSave, updatedTemplateData)
    IN  [op |-> "save",
         pc |-> IF path # <<>> THEN "write" ELSE "store",
         file |-> fileToSave,
         targetFileId |-> fileToSave.id,
         updated |-> updatedTemplateData,
         path |-> path,
         path2 |-> <<>>,
         batch |-> batch]

\* unsavedFiles.map(f => handleSave(f.id)): the invocations, in call order
SaveTasks(files, tree, batch) ==
    [i \in 1..Len(files) |-> SaveTask(files[i], tree, batch)]

\* A filter that let every open buffer through
UnsavedFilesUnfiltered(files) == files

\* openFiles.filter(f => f.hasUnsavedChanges)
UnsavedFiles(files) == SelectSeq(files, LAMBDA f : f.hasUnsavedChanges)

\* fileToSave of each handleSave(f.id) the closure over files would run
ToSave(files) ==
    [i \in 1..Len(UnsavedFiles(files)) |-> FindOpen(files, UnsavedFiles(files)[i].id)[1]]

FreshBatch == CHOOSE n \in 1..(Cardinality(DOMAIN batches) + 1) :
                  /\ n \notin DOMAIN batches
                  /\ \A m \in 1..(n - 1) : m \in DOMAIN batches

\* A caller awaiting the handleSave invocations of files
NewBatch(kind, fileId, closureActiveId, files) ==
    [kind |-> kind, pending |-> Len(files), fileId |-> fileId,
     activeFileId |-> closureActiveId, files |-> files, failed |-> FALSE]

\* Does the end of task t resume the caller that awaits it?
Settles(t) == t.batch # 0 /\ batches[t.batch].pending = 1

\* batches after task t has ended (ok: without a failure)
BatchesAfter(t, ok) ==
    IF t.batch = 0 THEN batches
    ELSE IF Settles(t) THEN [b \in DOMAIN batches \ {t.batch} |-> batches[b]]
    ELSE [batches EXCEPT ![t.batch].pending = @ - 1,
                         ![t.batch].failed = @ \/ ~ok]

\* The registry after the caller resumed by the end of t has run on: the
\* onConfirm of closeFile closes the file, that of closeAllFiles clears all
Resumed(R, t) ==
    IF ~Settles(t) THEN R
    ELSE CASE batches[t.batch].kind = "closeFile" ->
                  closeFileForce(R, batches[t.batch].activeFileId,
                                 batches[t.batch].fileId)
           [] batches[t.batch].kind = "closeAll" -> ClearedRegistry
           [] OTHER -> R

\* ... and the dialog: both onConfirm actions end by closing it
ResumedDialog(t) ==
    IF Settles(t) /\ batches[t.batch].kind \in {"closeFile", "closeAll"}
    THEN NoDialog ELSE confirmationDialog

\* What the step records about the caller it resumed
SettledInfo(t, ok) ==
    IF Settles(t)
    THEN << [kind |-> batches[t.batch].kind, files |-> batches[t.batch].files,
             failed |-> batches[t.batch].failed \/ ~ok,
             open |-> openFiles] >>
    ELSE <<>>

\* The end of a handleSave invocation, ok: after SaveUpdatedCode resolved
EndSave(i, ok, at) ==
    LET t == tasks[i]
        R0 == [Registry EXCEPT !.openFiles =
                  IF ok THEN MarkSaved(openFiles, t.targetFileId)
                  ELSE SaveFailed(openFiles, t.targetFileId)]
        R1 == Resumed(R0, t)
    IN  /\ SetRegistry(R1)
        /\ confirmationDialog' = ResumedDialog(t)
        /\ batches' = BatchesAfter(t, ok)
        /\ tasks' = RemoveAt(tasks, i)
        /\ autoSaveMemo' = Memo(R1.openFiles, R1.activeFileId, templateData,
                                IF ok THEN {t.targetFileId} ELSE {})
        /\ ev' = [op |-> "saveEnd", id |-> t.targetFileId, ok |-> ok, at |-> at,
                  content |-> t.file.content, updated |-> t.updated,
                  awaited |-> t.batch # 0, settled |-> SettledInfo(t, ok)]

\* await writeFileSync(path, fileToSave.content) of handleSave resolves
SaveWriteOk ==
    \E i \in 1..Len(tasks) :
        /\ tasks[i].op = "save" /\ tasks[i].pc = "write"
        /\ sandbox' = FsWrite(sandbox, tasks[i].path, tasks[i].file.content)
        /\ lastSyncedContent' =
               MapSet(lastSyncedContent, tasks[i].file.id, tasks[i].file.content)
        /\ tasks' = [tasks EXCEPT ![i].pc = "store"]
        /\ ev' = [op |-> "saveWrite", id |-> tasks[i].targetFileId]
        /\ UNCHANGED <<templateData, openFiles, activeFileId, confirmationDialog,
                       syncTimeout, autoSaveTimeout, autoSaveMemo, batches,
                       store, used>>

\* ... or rejects: the catch of handleSave
SaveWriteFail ==
    \E i \in 1..Len(tasks) :
        /\ tasks[i].op = "save" /\ tasks[i].pc = "write"
        /\ Reject
        /\ EndSave(i, FALSE, "write")
        /\ UNCHANGED <<templateData, syncTimeout, autoSaveTimeout, sandbox, store>>

\* await SaveUpdatedCode(id, updatedTemplateData) of handleSave resolves
SaveStoreOk ==
    \E i \in 1..Len(tasks) :
        /\ tasks[i].op = "save" /\ tasks[i].pc = "store"
        /\ store' = tasks[i].updated
        /\ EndSave(i, TRUE, "store")
        /\ UNCHANGED <<templateData, syncTimeout, autoSaveTimeout, sandbox, used>>

\* ... or rejects: the catch of handleSave
SaveStoreFail ==
    \E i \in 1..Len(tasks) :
        /\ tasks[i].op = "save" /\ tasks[i].pc = "store"
        /\ Reject
        /\ EndSave(i, FALSE, "store")
        /\ UNCHANGED <<templateData, syncTimeout, autoSaveTimeout, sandbox, store>>

\* handleSaveAll, from the "Save All" button (disabled while nothing is dirty)
handleSaveAll ==
    LET files == ToSave(openFiles) IN
        /\ Interactive
        /\ files # <<>>
        /\ Spend
        /\ tasks' = tasks \o SaveTasks(files, templateData, FreshBatch)
        /\ templateData' = tasks'[Len(tasks')].updated
        /\ batches' = [b \in DOMAIN batches \cup {FreshBatch} |->
                          IF b = FreshBatch
                          THEN NewBatch("saveAll", Null, activeFileId, files)
                          ELSE batches[b]]
        /\ ev' = [op |-> "saveAll"]
        /\ UNCHANGED <<openFiles, activeFileId, lastSyncedContent,
                       confirmationDialog, syncTimeout, autoSaveTimeout,
                       autoSaveMemo, sandbox, store>>

\* Ctrl+S: handleSave() as the keydown listener holds it. The listener is on
\* the window, so the dialog does not keep it from running.
handleSaveKey ==
    /\ autoSaveMemo.key # <<>>
    /\ LET closure == autoSaveMemo.key[1]
           targetFileId == closure.activeFileId
           fileToSave == FindOpen(closure.openFiles, targetFileId)
       IN  /\ targetFileId # Null
           /\ fileToSave # <<>>
           /\ tasks' = Append(tasks, SaveTask(fileToSave[1], closure.templateData, 0))
           /\ ev' = [op |-> "saveKey", id |-> targetFileId]
    /\ templateData' = tasks'[Len(tasks')].updated
    /\ autoSaveMemo' = Memo(openFiles, activeFileId, templateData', {})
    /\ Spend
    /\ UNCHANGED <<openFiles, activeFileId, lastSyncedContent,
                   confirmationDialog, syncTimeout, autoSaveTimeout, batches,
                   sandbox, store>>

----------------------------------------------------------------------------
(* Sync Scheduler: the two timers *)

\* The mirror timer fires: syncToWebContainer(file) up to its await
SyncFire ==
    /\ syncTimeout # <<>>
    /\ LET file == syncTimeout[1].file
           path == findFilePath(file, syncTimeout[1].templateData)
           skip == \/ path = <<>>
                   \/ /\ file.id \in DOMAIN lastSyncedContent
                      /\ lastSyncedContent[file.id] = file.content
       IN  /\ tasks' = IF skip THEN tasks
                       ELSE Append(tasks,
                                [op |-> "sync", pc |-> "write", file |-> file,
                                 targetFileId |-> file.id, updated |-> <<>>,
                                 path |-> path, path2 |-> <<>>, batch |-> 0])
           /\ ev' = [op |-> "syncFire", id |-> file.id, content |-> file.content,
                     started |-> ~skip]
    /\ syncTimeout' = <<>>
    /\ UNCHANGED <<templateData, openFiles, activeFileId, lastSyncedContent,
                   confirmationDialog, autoSaveTimeout, autoSaveMemo, batches,
                   sandbox, store, used>>

\* await writeFileSync(path, file.content) of syncToWebContainer resolves
SyncWriteOk ==
    \E i \in 1..Len(tasks) :
        /\ tasks[i].op = "sync"
        /\ sandbox' = FsWrite(sandbox, tasks[i].path, tasks[i].file.content)
        /\ lastSyncedContent' =
               MapSet(lastSyncedContent, tasks[i].file.id, tasks[i].file.content)
        /\ tasks' = RemoveAt(tasks, i)
        /\ ev' = [op |-> "syncEnd", id |-> tasks[i].file.id, ok |-> TRUE,
                  path |-> tasks[i].path, content |-> tasks[i].file.content]
        /\ UNCHANGED <<templateData, openFiles, activeFileId, confirmationDialog,
                       syncTimeout, autoSaveTimeout, autoSaveMemo, batches,
                       store, used>>

\* ... or rejects: logged only
SyncWriteFail ==
    \E i \in 1..Len(tasks) :
        /\ tasks[i].op = "sync"
        /\ Reject
        /\ tasks' = RemoveAt(tasks, i)
        /\ ev' = [op |-> "syncEnd", id |-> tasks[i].file.id, ok |-> FALSE,
                  path |-> tasks[i].path, content |-> tasks[i].file.content]
        /\ UNCHANGED <<templateData, openFiles, activeFileId, lastSyncedContent,
                       confirmationDialog, syncTimeout, autoSaveTimeout,
                       autoSaveMemo, batches, sandbox, store>>

\* Does the timer callback of scheduleAutoSave call handleSave? It tests the
\* activeFile its closure captured.
AutoSaves(closure) ==
    closure.activeFile # <<>> /\ closure.activeFile[1].hasUnsavedChanges

\* The auto-save timer fires
AutoSaveFire ==
    /\ autoSaveTimeout # <<>>
    /\ LET closure == autoSaveTimeout[1] IN
       IF AutoSaves(closure)
       THEN /\ tasks' = Append(tasks, SaveTask(closure.activeFile[1],
                                               closure.templateData, 0))
            /\ templateData' = tasks'[Len(tasks')].updated
            /\ ev' = [op |-> "autoSaveFire", saved |-> TRUE,
                      id |-> closure.activeFile[1].id,
                      content |-> closure.activeFile[1].content]
       ELSE /\ ev' = [op |-> "autoSaveFire", saved |-> FALSE]
            /\ UNCHANGED <<tasks, templateData>>
    /\ autoSaveTimeout' = <<>>
    /\ autoSaveMemo' = Memo(openFiles, activeFileId, templateData', {})
    /\ UNCHANGED <<openFiles, activeFileId, lastSyncedContent,
                   confirmationDialog, syncTimeout, batches, sandbox, store, used>>

----------------------------------------------------------------------------
(* close, closeAll and the Confirmation Gate *)

\* The request closeFile / closeAllFiles put in the gate (RequestLeftClosed: a
\* request that was stored without opening the gate). Its two actions are
\* closures of the render that made the request: files are the fileToSave
\* their handleSave calls will find, templateData and activeFileId what
\* handleSave and closeFileForce will read.
RequestLeftClosed(kind, fileId, files) ==
    [isOpen |-> FALSE, kind |-> kind, fileId |-> fileId, files |-> files,
     templateData |-> templateData, activeFileId |-> activeFileId]

Request(kind, fileId, files) ==
    [isOpen |-> TRUE, kind |-> kind, fileId |-> fileId, files |-> files,
     templateData |-> templateData, activeFileId |-> activeFileId]

\* closeFile(file.id), from the close mark of a tab
closeFile ==
    \E i \in 1..Len(openFiles) :
        LET fileId == openFiles[i].id
            file == FindOpen(openFiles, fileId)[1]
        IN  /\ Interactive
            /\ IF file.hasUnsavedChanges
               THEN /\ confirmationDialog' = Request("closeFile", fileId, <<file>>)
                    /\ UNCHANGED <<openFiles, activeFileId, lastSyncedContent>>
               ELSE /\ SetRegistry(closeFileForce(Registry, activeFileId, fileId))
                    /\ UNCHANGED confirmationDialog
            /\ autoSaveMemo' = Memo(openFiles', activeFileId', templateData, {})
            /\ Spend
            /\ ev' = [op |-> "closeFile", id |-> fileId,
                      gated |-> file.hasUnsavedChanges]
            /\ UNCHANGED <<templateData, syncTimeout, autoSaveTimeout, tasks,
                           batches, sandbox, store>>

\* closeAllFiles, from the menu or the "Close All" button
closeAllFiles ==
    /\ Interactive
    /\ openFiles # <<>>
    /\ IF UnsavedFiles(openFiles) # <<>>
       THEN /\ confirmationDialog' = Request("closeAll", Null, ToSave(openFiles))
            /\ UNCHANGED <<openFiles, activeFileId, lastSyncedContent>>
       ELSE /\ SetRegistry(ClearedRegistry)
            /\ UNCHANGED confirmationDialog
    /\ autoSaveMemo' = Memo(openFiles', activeFileId', templateData, {})
    /\ Spend
    /\ ev' = [op |-> "closeAll", gated |-> UnsavedFiles(openFiles) # <<>>]
    /\ UNCHANGED <<templateData, syncTimeout, autoSaveTimeout, tasks, batches,
                   sandbox, store>>

\* The "Save" button of the dialog: onConfirm up to its await
DialogConfirm ==
    LET d == confirmationDialog IN
        /\ d.isOpen
        /\ Spend
        /\ tasks' = tasks \o SaveTasks(d.files, d.templateData, FreshBatch)
        /\ templateData' = tasks'[Len(tasks')].updated
        /\ batches' = [b \in DOMAIN batches \cup {FreshBatch} |->
                          IF b = FreshBatch
                          THEN NewBatch(d.kind, d.fileId, d.activeFileId, d.files)
                          ELSE batches[b]]
        /\ ev' = [op |-> "confirm", kind |-> d.kind]
        /\ UNCHANGED <<openFiles, activeFileId, lastSyncedContent,
                       confirmationDialog, syncTimeout, autoSaveTimeout,
                       autoSaveMemo, sandbox, store>>

\* The "Don't Save" button of the dialog: onCancel
DialogCancel ==
    LET d == confirmationDialog IN
        /\ d.isOpen
        /\ SetRegistry(IF d.kind = "closeFile"
                       THEN closeFileForce(Registry, d.activeFileId, d.fileId)
                       ELSE ClearedRegistry)
        /\ confirmationDialog' = NoDialog
        /\ autoSaveMemo' = Memo(openFiles', activeFileId', templateData, {})
        /\ Spend
        /\ ev' = [op |-> "cancel", kind |-> d.kind]
        /\ UNCHANGED <<templateData, syncTimeout, autoSaveTimeout, tasks,
                       batches, sandbox, store>>

\* onOpenChange(false): the dialog is dismissed (Escape, click outside)
DialogDismiss ==
    /\ confirmationDialog.isOpen
    /\ confirmationDialog' = NoDialog
    /\ Spend
    /\ ev' = [op |-> "dismiss"]
    /\ UNCHANGED <<templateData, openFiles, activeFileId, lastSyncedContent,
                   syncTimeout, autoSaveTimeout, autoSaveMemo, tasks, batches,
                   sandbox, store>>

----------------------------------------------------------------------------
(* Mutation Engine *)

\* The walk over pathParts ends in "Folder not found"
NotFound(tree, parentPath) ==
    parentPath # <<>> /\ ~PathResolves(tree, Split(parentPath))

\* An invocation of a structural handler: calls are the sandbox calls it has
\* issued so far, closed the buffers its synchronous part force-closed
StructTask(op, pc, node, updated, path, path2) ==
    [op |-> op, pc |-> pc, file |-> node, targetFileId |-> Null,
     updated |-> updated, path |-> path, path2 |-> path2, batch |-> 0,
     calls |-> <<>>, closed |-> <<>>, newFileId |-> Null]

\* The sandbox call task t is suspended on
SandboxCall(t) ==
    [call |-> IF t.pc = "rm" /\ t.op = "deleteFolder" THEN "rmRecursive" ELSE t.pc,
     path |-> IF t.pc = "write" THEN t.path2 ELSE t.path]

CanStart ==
    /\ Interactive
    /\ used.ops < MaxOps /\ used.structs < MaxStructOps
    /\ used' = [used EXCEPT !.ops = @ + 1, !.structs = @ + 1]

\* handleAddFile(newFile, parentPath)
handleAddFile ==
    \E newFile \in NewFiles, parentPath \in FolderPaths(templateData) \cup {BadPath} :
        /\ CanStart
        /\ IF NotFound(templateData, parentPath)
           THEN /\ ev' = [op |-> "addFile", phase |-> "notFound"]
                /\ UNCHANGED <<templateData, openFiles, activeFileId,
                               lastSyncedContent, autoSaveMemo>>
           ELSE /\ templateData' = AddedTree(templateData, newFile, parentPath)
                /\ SetRegistry(openFile(Registry, newFile))
                /\ autoSaveMemo' = Memo(openFiles', activeFileId', templateData', {})
                /\ ev' = [op |-> "addFile", phase |-> "replaced"]
        /\ UNCHANGED <<confirmationDialog, syncTimeout, autoSaveTimeout, tasks,
                       batches, sandbox, store>>

\* handleAddFolder(newFolder, parentPath)
handleAddFolder ==
    \E newFolder \in NewFolders, parentPath \in FolderPaths(templateData) \cup {BadPath} :
        /\ CanStart
        /\ IF NotFound(templateData, parentPath)
           THEN /\ ev' = [op |-> "addFolder", phase |-> "notFound"]
                /\ UNCHANGED templateData
           ELSE /\ templateData' = AddedTree(templateData, newFolder, parentPath)
                /\ ev' = [op |-> "addFolder", phase |-> "replaced"]
        /\ UNCHANGED <<openFiles, activeFileId, lastSyncedContent,
                       confirmationDialog, syncTimeout, autoSaveTimeout,
                       autoSaveMemo, tasks, batches, sandbox, store>>

\* A structural handler that got past its walk suspends on its first await
Suspend(task) ==
    /\ tasks' = Append(tasks, task)
    /\ ev' = [op |-> task.op, phase |-> "started", node |-> task.file,
              newFileId |-> task.newFileId]

\* ... and one that did not returns
Abort(op, node) ==
    /\ ev' = [op |-> op, phase |-> "notFound", node |-> node]
    /\ UNCHANGED tasks

\* The registry after the "close it if it is open" of handleDeleteFile
DeleteFileRegistry(R, closureActiveId, file) ==
    IF IsOpen(R.openFiles, generateFileId(file))
    THEN closeFileForce(R, closureActiveId, generateFileId(file))
    ELSE R

\* handleDeleteFile(file, parentPath)
handleDeleteFile ==
    \E file \in FilesOf(templateData) :
    \E parentPath \in ParentPathsOf(file, templateData, <<>>) \cup {BadPath} :
        /\ CanStart
        /\ SetRegistry(DeleteFileRegistry(Registry, activeFileId, file))
        /\ autoSaveMemo' = Memo(openFiles', activeFileId', templateData, {})
        /\ IF NotFound(templateData, parentPath)
           THEN Abort("deleteFile", file)
           ELSE LET filePath == findFilePath(file, templateData) IN
                Suspend(StructTask("deleteFile",
                                   IF filePath # <<>> THEN "rm" ELSE "store", file,
                                   DeletedFileTree(templateData, file, parentPath),
                                   filePath, <<>>))
        /\ UNCHANGED <<templateData, confirmationDialog, syncTimeout,
                       autoSaveTimeout, batches, sandbox, store>>

\* filesToClose.forEach(file => closeFileForce(file.id)) of handleDeleteFolder
RECURSIVE CloseEach(_, _, _)
CloseEach(R, closureActiveId, closing) ==
    IF closing = <<>> THEN R
    ELSE CloseEach(closeFileForce(R, closureActiveId, closing[1].id),
                   closureActiveId, Tail(closing))

\* filesToClose of handleDeleteFolder: the open buffers whose path in the
\* tree starts with folderPath
filesToClose(files, tree, folderPath) ==
    SelectSeq(files, LAMBDA f :
        findFilePath(f, tree) # Null
        /\ StartsWith(findFilePath(f, tree), folderPath))

\* A handler that closed only the clean buffers of the folder and left those
\* with unsaved changes open
DeleteFolderRegistryKeepsDirty(R, closureActiveId, tree, folderPath) ==
    CloseEach(R, closureActiveId,
              SelectSeq(filesToClose(R.openFiles, tree, folderPath),
                        LAMBDA f : ~f.hasUnsavedChanges))

\* The registry after the "close any open files from this folder" of
\* handleDeleteFolder
DeleteFolderRegistry(R, closureActiveId, tree, folderPath) ==
    CloseEach(R, closureActiveId, filesToClose(R.openFiles, tree, folderPath))

\* handleDeleteFolder(folder, parentPath)
handleDeleteFolder ==
    \E target \in FoldersOf(templateData, <<>>) :
    \E parentPath \in {target[1], BadPath} :
        LET folder == target[2]
            folderPath == ChildPath(parentPath, folder.folderName)
        IN  /\ CanStart
            /\ SetRegistry(DeleteFolderRegistry(Registry, activeFileId,
                                                templateData, folderPath))
            /\ autoSaveMemo' = Memo(openFiles', activeFileId', templateData, {})
            /\ IF NotFound(templateData, parentPath)
               THEN Abort("deleteFolder", folder)
               ELSE Suspend([StructTask("deleteFolder", "rm", folder,
                                DeletedFolderTree(templateData, folder, parentPath),
                                folderPath, <<>>)
                             EXCEPT !.closed =
                                 filesToClose(openFiles, templateData, folderPath)])
            /\ UNCHANGED <<templateData, confirmationDialog, syncTimeout,
                           autoSaveTimeout, batches, sandbox, store>>

\* The registry after the "update open files if this file is open" of
\* handleRenameFile
RenameFileRegistry(R, file, newFilename, newExtension) ==
    LET oldFileId == generateFileId(file)
        newFileId == newFilename \o <<".">> \o newExtension
    IN  IF IsOpen(R.openFiles, oldFileId)
        THEN [openFiles |-> RenamedFiles(R.openFiles, file, newFilename, newExtension),
              activeFileId |-> IF R.activeFileId = oldFileId THEN newFileId
                               ELSE R.activeFileId,
              lastSyncedContent |->
                  RenamedWatermark(R.lastSyncedContent, oldFileId, newFileId)]
        ELSE R

\* dirPath ? `${dirPath}/${newFilename}.${newExtension}` : `${newFilename}.${newExtension}`
RenamedPath(oldPath, newFilename, newExtension) ==
    LET pathParts == Split(oldPath)
        dirPath == Join(SubSeq(pathParts, 1, Len(pathParts) - 1))
    IN  ChildPath(dirPath, newFilename \o <<".">> \o newExtension)

\* handleRenameFile(file, newFilename, newExtension, parentPath)
handleRenameFile ==
    \E file \in FilesOf(templateData), newFilename \in NewFilenames :
    \E parentPath \in ParentPathsOf(file, templateData, <<>>) \cup {BadPath} :
        LET newExtension == file.fileExtension
            oldPath == findFilePath(file, templateData)
        IN  /\ CanStart
            /\ newFilename # file.filename
            /\ SetRegistry(RenameFileRegistry(Registry, file, newFilename, newExtension))
            /\ autoSaveMemo' = Memo(openFiles', activeFileId', templateData,
                                    {newFilename \o <<".">> \o newExtension})
            /\ IF NotFound(templateData, parentPath)
               THEN Abort("renameFile", file)
               ELSE Suspend([StructTask("renameFile",
                                IF oldPath # <<>> THEN "write" ELSE "store", file,
                                RenamedFileTree(templateData, file, newFilename,
                                                newExtension, parentPath),
                                oldPath,
                                IF oldPath # <<>>
                                THEN RenamedPath(oldPath, newFilename, newExtension)
                                ELSE <<>>)
                             EXCEPT !.newFileId =
                                 newFilename \o <<".">> \o newExtension])
            /\ UNCHANGED <<templateData, confirmationDialog, syncTimeout,
                           autoSaveTimeout, batches, sandbox, store>>

\* handleRenameFolder(folder, newFolderName, parentPath)
handleRenameFolder ==
    \E target \in FoldersOf(templateData, <<>>), newFolderName \in NewFolderNames :
    \E parentPath \in {target[1], BadPath} :
        LET folder == target[2] IN
            /\ CanStart
            /\ newFolderName # folder.folderName
            /\ IF NotFound(templateData, parentPath)
               THEN Abort("renameFolder", folder)
               ELSE Suspend(StructTask("renameFolder", "mkdir", folder,
                                RenamedFolderTree(templateData, folder,
                                                  newFolderName, parentPath),
                                ChildPath(parentPath, newFolderName), <<>>))
            /\ UNCHANGED <<templateData, openFiles, activeFileId,
                           lastSyncedContent, confirmationDialog, syncTimeout,
                           autoSaveTimeout, autoSaveMemo, batches, sandbox, store>>

StructOps == {"deleteFile", "deleteFolder", "renameFile", "renameFolder"}

\* The sandbox after the awaited call of task t has taken effect
SandboxAfter(fs, t) ==
    CASE t.pc = "rm" /\ t.op = "deleteFolder" -> FsRmRecursive(fs, t.path)
      [] t.pc = "rm" /\ t.op # "deleteFolder" -> FsRm(fs, t.path)
      [] t.pc = "write" -> FsWrite(fs, t.path2, t.file.content)
      [] t.pc = "mkdir" -> FsMkdir(fs, t.path)

\* Where a structural handler goes on after its sandbox call: the rename of a
\* file removes the old file after writing the new one, unless the write threw
PcAfter(t, ok) ==
    IF t.op = "renameFile" /\ t.pc = "write" /\ ok THEN "rm" ELSE "store"

\* An awaited sandbox call of a structural handler resolves
StructSandboxOk ==
    \E i \in 1..Len(tasks) :
        /\ tasks[i].op \in StructOps /\ tasks[i].pc # "store"
        /\ sandbox' = SandboxAfter(sandbox, tasks[i])
        /\ tasks' = [tasks EXCEPT ![i].pc = PcAfter(tasks[i], TRUE),
                                  ![i].calls = Append(@, SandboxCall(tasks[i]))]
        /\ ev' = [op |-> tasks[i].op, phase |-> "sandbox", ok |-> TRUE]
        /\ UNCHANGED <<templateData, openFiles, activeFileId, lastSyncedContent,
                       confirmationDialog, syncTimeout, autoSaveTimeout,
                       autoSaveMemo, batches, store, used>>

\* ... or rejects: the inner catch logs it and the handler goes on
StructSandboxFail ==
    \E i \in 1..Len(tasks) :
        /\ tasks[i].op \in StructOps /\ tasks[i].pc # "store"
        /\ Reject
        /\ tasks' = [tasks EXCEPT ![i].pc = PcAfter(tasks[i], FALSE),
                                  ![i].calls = Append(@, SandboxCall(tasks[i]))]
        /\ ev' = [op |-> tasks[i].op, phase |-> "sandbox", ok |-> FALSE]
        /\ UNCHANGED <<templateData, openFiles, activeFileId, lastSyncedContent,
                       confirmationDialog, syncTimeout, autoSaveTimeout,
                       autoSaveMemo, batches, sandbox, store>>

\* A handler that replaced the tree without looking at the outcome of the store write
TreeReplacedRegardless(tree, t, ok) == t.updated

\* The in-memory tree after the SaveUpdatedCode of a structural handler has
\* settled: setTemplateData(updatedTemplateData) follows the await, the outer
\* catch only reports
TreeAfterStore(tree, t, ok) == IF ok THEN t.updated ELSE tree

\* await SaveUpdatedCode(id, updatedTemplateData) of a structural handler resolves
StructStoreOk ==
    \E i \in 1..Len(tasks) :
        /\ tasks[i].op \in StructOps /\ tasks[i].pc = "store"
        /\ store' = tasks[i].updated
        /\ templateData' = TreeAfterStore(templateData, tasks[i], TRUE)
        /\ tasks' = RemoveAt(tasks, i)
        /\ ev' = [op |-> tasks[i].op, phase |-> "replaced", node |-> tasks[i].file,
                  path |-> tasks[i].path, calls |-> tasks[i].calls,
                  closed |-> tasks[i].closed, newFileId |-> tasks[i].newFileId]
        /\ UNCHANGED <<openFiles, activeFileId, lastSyncedContent,
                       confirmationDialog, syncTimeout, autoSaveTimeout,
                       autoSaveMemo, batches, sandbox, used>>

\* ... or rejects: the outer catch
StructStoreFail ==
    \E i \in 1..Len(tasks) :
        /\ tasks[i].op \in StructOps /\ tasks[i].pc = "store"
        /\ Reject
        /\ templateData' = TreeAfterStore(templateData, tasks[i], FALSE)
        /\ tasks' = RemoveAt(tasks, i)
        /\ ev' = [op |-> tasks[i].op, phase |-> "storeFailed", node |-> tasks[i].file,
                  path |-> tasks[i].path, calls |-> tasks[i].calls,
                  closed |-> tasks[i].closed, newFileId |-> tasks[i].newFileId]
        /\ UNCHANGED <<openFiles, activeFileId, lastSyncedContent,
                       confirmationDialog, syncTimeout, autoSaveTimeout,
                       autoSaveMemo, batches, sandbox, store>>

----------------------------------------------------------------------------
(* Specifications *)

\* The buffer registry, the sync scheduler and the confirmation gate over a
\* fixed project structure
NextSave ==
    \/ OpenFile
    \/ SelectTab
    \/ handleEditorChange
    \/ closeFile
    \/ closeAllFiles
    \/ DialogConfirm
    \/ DialogCancel
    \/ DialogDismiss
    \/ handleSaveAll
    \/ SaveWriteOk
    \/ SaveWriteFail
    \/ SaveStoreOk
    \/ SaveStoreFail
    \/ SyncFire
    \/ SyncWriteOk
    \/ SyncWriteFail
    \/ AutoSaveFire

SpecSave == Init /\ [][NextSave]_vars

\* The mutation engine over buffers that are opened and edited
NextStruct ==
    \/ OpenFile
    \/ SelectTab
    \/ handleEditorChange
    \/ handleAddFile
    \/ handleAddFolder
    \/ handleDeleteFile
    \/ handleDeleteFolder
    \/ handleRenameFile
    \/ handleRenameFolder
    \/ StructSandboxOk
    \/ StructSandboxFail
    \/ StructStoreOk
    \/ StructStoreFail

SpecStruct == Init /\ [][NextStruct]_vars

\* The deletion of folders that hold open buffers, one level and two levels
\* below the root
NextFolder ==
    \/ OpenFile
    \/ SelectTab
    \/ handleEditorChange
    \/ handleDeleteFolder
    \/ StructSandboxOk
    \/ StructSandboxFail
    \/ StructStoreOk
    \/ StructStoreFail

SpecFolder == InitWith(FolderTree) /\ [][NextFolder]_vars

\* The deleting of folders among siblings of similar names
SpecPrefix == InitWith(PrefixTree) /\ [][NextFolder]_vars

\* The rename of files whose buffers are edited and mirrored
NextRename ==
    \/ OpenFile
    \/ SelectTab
    \/ handleEditorChange
    \/ handleEditorChangeEmpty
    \/ SyncFire
    \/ SyncWriteOk
    \/ SyncWriteFail
    \/ handleRenameFile
    \/ StructSandboxOk
    \/ StructSandboxFail
    \/ StructStoreOk
    \/ StructStoreFail

SpecRename == Init /\ [][NextRename]_vars

\* Opening, closing, adding and renaming files in a project where the new
\* name of a rename is already taken
NextNamesake ==
    \/ OpenFile
    \/ SelectTab
    \/ closeFile
    \/ handleAddFile
    \/ handleRenameFile
    \/ StructSandboxOk
    \/ StructSandboxFail
    \/ StructStoreOk
    \/ StructStoreFail

SpecNamesake == InitWith(NamesakeTree) /\ [][NextNamesake]_vars

\* The deleting of files that have a namesake in another folder
NextTwin ==
    \/ OpenFile
    \/ handleEditorChange
    \/ handleDeleteFile
    \/ StructSandboxOk
    \/ StructSandboxFail
    \/ StructStoreOk
    \/ StructStoreFail

SpecTwin == InitWith(TwinTree) /\ [][NextTwin]_vars

\* Saves that overlap with the adding and the deleting of files
NextRace ==
    \/ OpenFile
    \/ handleEditorChange
    \/ handleSaveAll
    \/ SaveWriteOk
    \/ SaveWriteFail
    \/ SaveStoreOk
    \/ SaveStoreFail
    \/ handleAddFile
    \/ handleDeleteFile
    \/ StructSandboxOk
    \/ StructSandboxFail
    \/ StructStoreOk
    \/ StructStoreFail

SpecRace == Init /\ [][NextRace]_vars

\* findFilePath(file, templateData) is called
ResolvePath ==
    \E file \in PathFiles :
        /\ ev' = [op |-> "findFilePath", file |-> file,
                  res |-> findFilePathOrNull(file, templateData)]
        /\ UNCHANGED <<templateData, openFiles, activeFileId, lastSyncedContent,
                       confirmationDialog, syncTimeout, autoSaveTimeout,
                       autoSaveMemo, tasks, batches, sandbox, store, used>>

\* generateFileId(file, templateData) of the libs module is called
GenerateFileId ==
    \E file \in FilesOf(templateData) :
        /\ ev' = [op |-> "generateFileId", file |-> file,
                  id |-> generateFileIdOfLibs(file, templateData)]
        /\ UNCHANGED <<templateData, openFiles, activeFileId, lastSyncedContent,
                       confirmationDialog, syncTimeout, autoSaveTimeout,
                       autoSaveMemo, tasks, batches, sandbox, store, used>>

\* The functions of the libs module over every tree of PathTrees
NextPath ==
    \/ ResolvePath
    \/ GenerateFileId

SpecPath == (\E tree \in PathTrees : InitWith(tree)) /\ [][NextPath]_vars

\* Saves of one buffer after another: the Save All button and Ctrl+S
NextKeys ==
    \/ OpenFile
    \/ SelectTab
    \/ handleEditorChange
    \/ handleSaveAll
    \/ handleSaveKey
    \/ SaveWriteOk
    \/ SaveWriteFail
    \/ SaveStoreOk
    \/ SaveStoreFail

SpecKeys == InitKeys /\ [][NextKeys]_vars

----------------------------------------------------------------------------
(* Claims *)

ActiveFile == ActiveFileOf(openFiles, activeFileId)

\* The File nodes of tree with the identity of file all hold content
TreeHolds(tree, file, content) ==
    /\ \E n \in FilesOf(tree) : SameFile(n, file)
    /\ \A n \in FilesOf(tree) : SameFile(n, file) => n.content = content

\* C1: in every reachable state every open buffer has
\* hasUnsavedChanges = (content differs from originalContent).
C1_DirtyFlagIsDerived ==
    \A i \in 1..Len(openFiles) :
        openFiles[i].hasUnsavedChanges
            = (openFiles[i].content # openFiles[i].originalContent)

\* C2: a clean buffer is opened and edited once (the only two user operations
\* so far), so that it is dirty; when the auto-save timer then fires, the save
\* of that buffer with its content is under way.
C2_AutoSaveAfterOneEdit ==
    ( /\ ev.op = "autoSaveFire"
      /\ used.ops = 2
      /\ ActiveFile # <<>>
      /\ ActiveFile[1].hasUnsavedChanges )
    => \E i \in 1..Len(tasks) :
           /\ tasks[i].op = "save"
           /\ tasks[i].targetFileId = activeFileId
           /\ tasks[i].file.content = ActiveFile[1].content

\* C3: the content a firing debounce timer (mirror or auto-save) sets out to
\* write for a buffer is the content the buffer has when the timer fires.
C3_TimersWriteLatestContent ==
    /\ (ev.op = "autoSaveFire" /\ ev.saved)
           => \A i \in 1..Len(openFiles) :
                  openFiles[i].id = ev.id => openFiles[i].content = ev.content
    /\ (ev.op = "syncFire" /\ ev.started)
           => \A i \in 1..Len(openFiles) :
                  openFiles[i].id = ev.id => openFiles[i].content = ev.content

\* C4: when a save of a buffer that saveAll or a confirmed close invoked
\* ends successfully, the originalContent the buffer is left with is the
\* content that save wrote to the store.
C4_OriginalContentIsPersisted ==
    (ev.op = "saveEnd" /\ ev.ok /\ ev.awaited)
    => \A i \in 1..Len(openFiles) :
           openFiles[i].id = ev.id => openFiles[i].originalContent = ev.content

\* C5: when saveAll completes without a failure, the Tree last persisted and
\* the in-memory Tree hold, for every buffer that was dirty at the invocation,
\* the content saveAll found in it, and each such buffer is clean.
C5_SaveAllSavesEveryDirtyBuffer ==
    ( /\ ev.op = "saveEnd"
      /\ ev.settled # <<>>
      /\ ev.settled[1].kind = "saveAll"
      /\ ~ev.settled[1].failed )
    => \A k \in 1..Len(ev.settled[1].files) :
           LET f == ev.settled[1].files[k] IN
               /\ TreeHolds(store, f, f.content)
               /\ TreeHolds(templateData, f, f.content)
               /\ \A i \in 1..Len(openFiles) :
                      openFiles[i].id = f.id => ~openFiles[i].hasUnsavedChanges

\* C6: when the sandbox write of a save fails, the save still goes on to
\* persist its updated Tree to the store.
C6_MirrorFailureDoesNotBlockSave ==
    (ev.op = "saveEnd" /\ ev.at = "write" /\ ~ev.ok)
    => \E i \in 1..Len(tasks) :
           /\ tasks[i].op = "save" /\ tasks[i].pc = "store"
           /\ tasks[i].targetFileId = ev.id
           /\ tasks[i].updated = ev.updated

\* C7: the step in which the store write of a save fails changes no buffer:
\* content, originalContent and hasUnsavedChanges of every buffer that stays
\* open are what they were, and buffers leave the registry in that step only
\* when the save was awaited by a confirmed close.
C7_FailedStoreWriteKeepsBuffer ==
    [][ (ev'.op = "saveEnd" /\ ev'.at = "store" /\ ~ev'.ok)
        => /\ \A i \in 1..Len(openFiles') : openFiles'[i] \in Range(openFiles)
           /\ (ev'.settled = <<>> \/ ev'.settled[1].kind = "saveAll")
                  => openFiles' = openFiles ]_vars

\* C7 witness: the store write of a save of a dirty buffer has just failed
\* and the buffer is open, dirty, with the content the save was writing.
C7_Witness ==
    /\ ev.op = "saveEnd" /\ ev.at = "store" /\ ~ev.ok
    /\ \E i \in 1..Len(openFiles) :
           /\ openFiles[i].id = ev.id
           /\ openFiles[i].hasUnsavedChanges
           /\ openFiles[i].content = ev.content
           /\ openFiles[i].originalContent # ev.content

\* C8: whenever a structural operation replaces the in-memory Tree, that
\* Tree has been written to the store.
C8_StructuralReplaceIsPersisted ==
    (ev.op \in {"addFile", "addFolder"} \cup StructOps /\ ev.phase = "replaced")
    => store = templateData

\* C9: a structural operation that ends in "folder not found" changes
\* neither the Tree, the registry, the watermarks, the sandbox nor the store.
C9_NotFoundChangesNothing ==
    [][ (ev'.op \in {"addFile", "addFolder"} \cup StructOps
         /\ ev'.phase = "notFound")
        => UNCHANGED <<templateData, openFiles, activeFileId,
                       lastSyncedContent, sandbox, store>> ]_vars

\* C10: the step in which the store write of a delete or rename fails leaves
\* the in-memory Tree as it was and undoes nothing of what the operation did
\* to the registry, the watermarks and the sandbox.
C10_FailedStoreWriteKeepsTree ==
    [][ (ev'.op \in StructOps /\ ev'.phase = "storeFailed")
        => UNCHANGED <<templateData, openFiles, activeFileId,
                       lastSyncedContent, sandbox, store>> ]_vars

\* C10 witness: the store write of the rename of an open file has failed:
\* the Tree still has the file under its old name, while the buffer carries
\* the new id and the sandbox the new file.
C10_Witness ==
    /\ ev.op = "renameFile" /\ ev.phase = "storeFailed"
    /\ ev.node \in FilesOf(templateData)
    /\ ~IsOpen(openFiles, generateFileId(ev.node))
    /\ openFiles # <<>>
    /\ ev.path \notin DOMAIN sandbox.files
    /\ store = templateData

\* All nodes of a folder, the folders among them included
RECURSIVE NodesOf(_)
NodesOf(folder) ==
    UNION {IF IsFolder(folder.items[i])
           THEN {folder.items[i]} \cup NodesOf(folder.items[i])
           ELSE {folder.items[i]} : i \in 1..Len(folder.items)}

\* The name a node goes by: folderName, or filename.extension
NameOf(item) == IF IsFolder(item) THEN item.folderName ELSE LeafName(item)

\* C11: deleting a folder closes every open buffer of the folder in the
\* handler's own step, dirty or not, and leaves the gate idle; when the
\* delete has replaced the Tree, the Tree holds neither the folder nor any
\* of its descendants and the handler has issued exactly one sandbox call,
\* the recursive remove of the folder's path.
C11_DeleteFolderForceCloses ==
    /\ (ev.op = "deleteFolder" /\ ev.phase = "started")
           => /\ \A f \in FilesOf(ev.node) : ~IsOpen(openFiles, generateFileId(f))
              /\ ~confirmationDialog.isOpen
    /\ (ev.op = "deleteFolder" /\ ev.phase = "replaced")
           => /\ {NameOf(n) : n \in NodesOf(templateData)}
                     \cap {NameOf(n) : n \in {ev.node} \cup NodesOf(ev.node)} = {}
              /\ ev.calls = << [call |-> "rmRecursive", path |-> ev.path] >>

\* C11 witness: the delete of a folder that held two open dirty buffers has
\* replaced the Tree
C11_Witness ==
    /\ ev.op = "deleteFolder" /\ ev.phase = "replaced"
    /\ Len(ev.closed) = 2
    /\ \A i \in 1..2 : ev.closed[i].hasUnsavedChanges
    /\ openFiles = <<>>
    /\ ~confirmationDialog.isOpen

\* C12: the step in which the rename of an open file gets under way gives
\* the buffer the new id, makes the new id active if the old one was, and
\* moves the buffer's watermark entry, whatever its value, from the old id
\* to the new one; when the rename has replaced the Tree, the leaf goes by
\* the new name and holds the content it held.
C12_RenameMovesBufferAndWatermark ==
    [][ LET oldFileId == generateFileId(ev'.node)
            newFileId == ev'.newFileId
        IN  /\ ( /\ ev'.op = "renameFile" /\ ev'.phase = "started"
                 /\ IsOpen(openFiles, oldFileId) )
                => /\ IsOpen(openFiles', newFileId)
                   /\ ~IsOpen(openFiles', oldFileId)
                   /\ activeFileId = oldFileId => activeFileId' = newFileId
                   /\ oldFileId \in DOMAIN lastSyncedContent
                          => /\ oldFileId \notin DOMAIN lastSyncedContent'
                             /\ newFileId \in DOMAIN lastSyncedContent'
                             /\ lastSyncedContent'[newFileId]
                                    = lastSyncedContent[oldFileId]
            /\ (ev'.op = "renameFile" /\ ev'.phase = "replaced")
                => /\ \E n \in FilesOf(templateData') :
                          /\ LeafName(n) = newFileId
                          /\ n.content = ev'.node.content
                   /\ \A n \in FilesOf(templateData') : LeafName(n) # oldFileId
      ]_vars

\* C13: closeAll with a dirty buffer among the open ones opens the gate and
\* closes nothing; confirming starts one save per buffer that was dirty, and
\* none for a clean one; when the save of the one dirty buffer has ended,
\* the registry and the watermark map are empty, the gate is idle and, if
\* nothing failed, the store holds the buffer's content.
C13_CloseAllConfirmSavesDirtyThenClears ==
    [][ /\ (ev'.op = "closeAll" /\ ev'.gated)
            => /\ ~confirmationDialog.isOpen /\ confirmationDialog'.isOpen
               /\ UNCHANGED <<openFiles, activeFileId, lastSyncedContent>>
        /\ (ev'.op = "confirm" /\ ev'.kind = "closeAll")
            => /\ Len(tasks') = Len(tasks) + Len(confirmationDialog.files)
               /\ \A i \in (Len(tasks) + 1)..Len(tasks') :
                      /\ tasks'[i].op = "save"
                      /\ tasks'[i].file.hasUnsavedChanges
        /\ ( /\ ev'.op = "saveEnd" /\ ev'.settled # <<>>
             /\ ev'.settled[1].kind = "closeAll"
             /\ Len(ev'.settled[1].files) = 1 )
            => /\ openFiles' = <<>>
               /\ activeFileId' = Null
               /\ lastSyncedContent' = <<>>
               /\ ~confirmationDialog'.isOpen
               /\ ~ev'.settled[1].failed
                      => TreeHolds(store', ev'.settled[1].files[1],
                                   ev'.settled[1].files[1].content)
      ]_vars

\* C13 witness: the confirmed closeAll of one dirty and one clean buffer has
\* saved the dirty one and cleared both
C13_Witness ==
    /\ ev.op = "saveEnd" /\ ev.ok /\ ev.settled # <<>>
    /\ ev.settled[1].kind = "closeAll"
    /\ Len(ev.settled[1].files) = 1
    /\ Len(ev.settled[1].open) = 2
    /\ \E i \in 1..2 : ~ev.settled[1].open[i].hasUnsavedChanges
                          /\ ev.settled[1].open[i].id # ev.id
    /\ openFiles = <<>> /\ lastSyncedContent = <<>>
    /\ TreeHolds(store, ev.settled[1].files[1], ev.content)

C15_GateIsResolvedByAnAction ==
    [][ (confirmationDialog.isOpen /\ ~confirmationDialog'.isOpen)
        => \/ ev'.op = "cancel"
           \/ /\ ev'.op = "saveEnd" /\ ev'.settled # <<>>
              /\ ev'.settled[1].kind \in {"closeFile", "closeAll"}
      ]_vars

\* C16: when the mirror timer fires right after an edit (nothing happened in
\* between), it is spent, and it sets out to write, once, the content the
\* edited buffer now has to the buffer's path in the Tree exactly if that
\* content differs from the buffer's watermark entry; and when a mirror write
\* succeeds, the sandbox holds the content at that path and the watermark
\* entry is that content.
C16_MirrorWritesOnceIfChanged ==
    [][ /\ (ev.op = "edit" /\ ev'.op = "syncFire")
            => LET buffer == FindOpen(openFiles, ev.id)[1]
                   changed == ~( /\ buffer.id \in DOMAIN lastSyncedContent
                                 /\ lastSyncedContent[buffer.id] = buffer.content )
               IN  /\ syncTimeout' = <<>>
                   /\ ev'.id = buffer.id /\ ev'.content = buffer.content
                   /\ changed
                        => /\ Len(tasks') = Len(tasks) + 1
                           /\ tasks'[Len(tasks')].op = "sync"
                           /\ tasks'[Len(tasks')].file.content = buffer.content
                           /\ tasks'[Len(tasks')].path
                                  = findFilePath(buffer, templateData)
                   /\ ~changed => tasks' = tasks
        /\ (ev'.op = "syncEnd" /\ ev'.ok)
            => /\ ev'.path \in DOMAIN sandbox'.files
               /\ sandbox'.files[ev'.path] = ev'.content
               /\ ev'.id \in DOMAIN lastSyncedContent'
               /\ lastSyncedContent'[ev'.id] = ev'.content
               /\ Len(tasks') = Len(tasks) - 1
      ]_vars

\* C16 witness: a.t was opened with "x" and edited to "y", nothing else was
\* done, and the mirror write has ended: the sandbox and the watermark hold
\* "y" and no further write is pending
C16_Witness ==
    /\ ev.op = "syncEnd" /\ ev.ok
    /\ used.ops = 2
    /\ \E i \in 1..Len(openFiles) :
           /\ openFiles[i].id = ev.id
           /\ openFiles[i].originalContent = "x" /\ openFiles[i].content = "y"
           /\ sandbox.files[findFilePath(openFiles[i], templateData)] = "y"
           /\ lastSyncedContent[ev.id] = "y"
    /\ tasks = <<>> /\ syncTimeout = <<>>

\* C17: an edit of one buffer leaves the pending mirror timer of another
\* buffer pending, with the content it is to mirror.
C17_MirrorTimerSurvivesOtherBuffer ==
    [][ ( /\ syncTimeout # <<>>
          /\ ev'.op = "edit"
          /\ ev'.id # syncTimeout[1].file.id )
        => \E k \in 1..Len(syncTimeout') :
               syncTimeout'[k].file = syncTimeout[1].file
      ]_vars

\* C18: a save that the firing auto-save timer starts is the save of the
\* buffer that is active when the timer fires.
C18_AutoSaveTargetsActiveBuffer ==
    [][ (ev'.op = "autoSaveFire" /\ ev'.saved)
        => /\ ev'.id = activeFileId
           /\ tasks'[Len(tasks')].targetFileId = activeFileId
      ]_vars

\* C19: when the mirror timer fires for a buffer that has been closed, no
\* sandbox write is started, and no mirror write that ends creates a
\* watermark entry for the id of a buffer that is not open.
C19_MirrorFireAfterCloseIsNoOp ==
    [][ /\ (ev'.op = "syncFire" /\ ~IsOpen(openFiles, ev'.id))
            => /\ tasks' = tasks
               /\ UNCHANGED <<sandbox, lastSyncedContent>>
        /\ (ev'.op = "syncEnd" /\ ~IsOpen(openFiles, ev'.id))
            => ev'.id \notin DOMAIN lastSyncedContent'
      ]_vars

\* C20: for every watermark entry id -> content and every File node of the
\* Tree that the id denotes, the sandbox holds that content at the node's
\* path.
C20_WatermarkIsWhatTheSandboxHolds ==
    \A id \in DOMAIN lastSyncedContent :
        \A n \in FilesOf(templateData) :
            generateFileId(n) = id
            => /\ findFilePath(n, templateData) \in DOMAIN sandbox.files
               /\ sandbox.files[findFilePath(n, templateData)]
                      = lastSyncedContent[id]

\* The ids of the buffers in the registry
OpenIds(files) == {files[i].id : i \in 1..Len(files)}

\* C21: in every reachable state every key of the watermark map is the id of
\* a buffer that is open.
C21_WatermarkKeysAreOpen ==
    DOMAIN lastSyncedContent \subseteq OpenIds(openFiles)

C23_SaveIsIdempotent ==
    [][ /\ ( /\ ev.op = "saveEnd" /\ ev.ok
             /\ ev'.op = "saveKey" /\ ev'.id = ev.id
             /\ IsOpen(openFiles, ev.id) )
            => /\ templateData' = templateData
               /\ tasks'[Len(tasks')].updated = store
               /\ tasks'[Len(tasks')].file.content
                      = FindOpen(openFiles, ev.id)[1].content
        /\ ( /\ ev.op = "saveEnd" /\ ev.ok
             /\ ev'.op = "saveEnd" /\ ev'.ok /\ ev'.id = ev.id )
            => /\ store' = store
               /\ openFiles' = openFiles
        /\ ( /\ ev'.op = "saveEnd" /\ ev'.ok
             /\ IsOpen(openFiles, ev'.id)
             /\ ~FindOpen(openFiles, ev'.id)[1].hasUnsavedChanges )
            => /\ openFiles' = openFiles
               /\ ~FindOpen(openFiles', ev'.id)[1].hasUnsavedChanges
      ]_vars

\* The File nodes of a tree, each with the item indices that lead to it and
\* the names of the folders it lies in
RECURSIVE Occurrences(_, _, _)
Occurrences(folder, index, folders) ==
    UNION {LET item == folder.items[i] IN
           IF IsFolder(item)
           THEN Occurrences(item, Append(index, i), Append(folders, item.folderName))
           ELSE {[index |-> Append(index, i), node |-> item, folders |-> folders]}
           : i \in 1..Len(folder.items)}

\* a comes before b in a depth-first traversal in item order
Before(a, b) ==
    \E k \in 1..Len(a) :
        /\ k <= Len(b)
        /\ a[k] < b[k]
        /\ \A j \in 1..(k - 1) : a[j] = b[j]

\* The folder names and the leaf name of an occurrence, joined by slashes
PathOfOccurrence(o) ==
    Join(Append(o.folders,
                IF o.node.fileExtension = <<>> THEN o.node.filename
                ELSE o.node.filename \o <<".">> \o o.node.fileExtension))

\* C24: findFilePath(file, tree) is non-null exactly if the tree has a File
\* node with the file's filename and extension, and then it is the path of
\* the first such node of the depth-first traversal in item order: the names
\* of its folders and its leaf name (the bare filename for an empty
\* extension) joined by slashes.
C24_ResolvePathFindsFirstMatch ==
    ev.op = "findFilePath"
    => LET occ == {o \in Occurrences(templateData, <<>>, <<>>) :
                      SameFile(o.node, ev.file)}
       IN  /\ (ev.res # <<>>) = (occ # {})
           /\ occ # {}
                => \E o \in occ :
                       /\ \A q \in occ : q = o \/ Before(o.index, q.index)
                       /\ ev.res = << PathOfOccurrence(o) >>

\* C24 witness: the file a (no extension) lies in folder s and, after that
\* folder, at the root: the path found is s/a
C24_Witness ==
    /\ ev.op = "findFilePath"
    /\ ev.file = File(<<"a">>, <<>>, "x")
    /\ templateData.items = << Folder(<<"s">>, << File(<<"a">>, <<>>, "x") >>),
                               File(<<"a">>, <<>>, "x") >>
    /\ ev.res = << <<"s", "/", "a">> >>

\* C25: an open of a file whose derived id a buffer already has leaves the
\* registry's buffers as they are, makes that buffer active and shows the
\* content the buffer holds; any other open appends one buffer, with
\* content = originalContent = the content of the File node and without
\* unsaved changes, makes it active and shows that content.
C25_OpenReusesOrAppends ==
    [][ ev'.op = "openFile"
        => /\ activeFileId' = ev'.id
           /\ IF IsOpen(openFiles, ev'.id)
              THEN /\ openFiles' = openFiles
                   /\ ev'.shown = FindOpen(openFiles, ev'.id)[1].content
              ELSE /\ openFiles' =
                          Append(openFiles,
                                 [filename |-> ev'.file.filename,
                                  fileExtension |-> ev'.file.fileExtension,
                                  id |-> ev'.id,
                                  content |-> ev'.file.content,
                                  originalContent |-> ev'.file.content,
                                  hasUnsavedChanges |-> FALSE])
                   /\ ev'.shown = ev'.file.content
      ]_vars

\* C25 witness: a file was opened again while its buffer held an edit the
\* Tree does not have: there is still one buffer for it, it is active and
\* the editor shows the edit
C25_Witness ==
    /\ ev.op = "openFile" /\ ~ev.created
    /\ activeFileId = ev.id
    /\ Cardinality({i \in 1..Len(openFiles) : openFiles[i].id = ev.id}) = 1
    /\ FindOpen(openFiles, ev.id)[1].content # ev.file.content
    /\ ev.shown = FindOpen(openFiles, ev.id)[1].content

\* The ids of the buffers a step takes out of the registry
Removed == OpenIds(openFiles) \ OpenIds(openFiles')

\* C26: a step that removes buffers from the registry leaves no watermark
\* entry for a removed id; if the active buffer is among the removed ones,
\* the last of the remaining buffers is active afterwards, or none if none
\* remains; otherwise activeFileId is what it was.
C26_RemovalClearsAndReactivates ==
    [][ ( /\ Removed # {}
          /\ openFiles' = SelectSeq(openFiles, LAMBDA f : f.id \notin Removed) )
        => /\ \A id \in Removed : id \notin DOMAIN lastSyncedContent'
           /\ activeFileId \in Removed
                => activeFileId' = IF openFiles' = <<>> THEN Null
                                   ELSE openFiles'[Len(openFiles')].id
           /\ activeFileId \notin Removed => activeFileId' = activeFileId
      ]_vars

\* C28: in every reachable state activeFileId is null or the id of a buffer
\* in the registry.
C28_ActiveIsNullOrOpen ==
    activeFileId = Null \/ activeFileId \in OpenIds(openFiles)

\* C27: the id generateFileId of the libs module gives a File node of the
\* Tree differs from the id it gives any File node at another path.
C27_LibsIdsDifferAcrossPaths ==
    ev.op = "generateFileId"
    => \A o1 \in Occurrences(templateData, <<>>, <<>>) :
       \A o2 \in Occurrences(templateData, <<>>, <<>>) :
           (o1.node = ev.file /\ PathOfOccurrence(o1) # PathOfOccurrence(o2))
           => generateFileIdOfLibs(o2.node, templateData) # ev.id

\* C29: the step in which the rename of an open file with unsaved changes
\* gets under way leaves the buffer, under its new id, with the content it
\* had.
C29_RenameKeepsLiveContent ==
    [][ ( /\ ev'.op = "renameFile" /\ ev'.phase = "started"
          /\ IsOpen(openFiles, generateFileId(ev'.node))
          /\ FindOpen(openFiles, generateFileId(ev'.node))[1].hasUnsavedChanges )
        => /\ IsOpen(openFiles', ev'.newFileId)
           /\ FindOpen(openFiles', ev'.newFileId)[1].content
                  = FindOpen(openFiles, generateFileId(ev'.node))[1].content
      ]_vars

\* C30: in every reachable state the buffers of the registry have pairwise
\* different ids.
C30_BufferIdsAreDistinct ==
    \A i \in 1..Len(openFiles) :
        \A j \in 1..Len(openFiles) :
            i # j => openFiles[i].id # openFiles[j].id

\* The File nodes of a tree whose derived id is not id
OtherFiles(tree, id) == {n \in FilesOf(tree) : generateFileId(n) # id}

\* C31: the completion of an operation undoes nothing another operation has
\* applied: the step in which a delete replaces the in-memory Tree leaves
\* every File node but the deleted one as it is in the in-memory Tree, and
\* after the step in which a save writes the store, the File nodes the store
\* holds, but that of the saved file, are File nodes of the in-memory Tree.
C31_CompletionUndoesNothing ==
    [][ /\ (ev'.op = "deleteFile" /\ ev'.phase = "replaced")
            => OtherFiles(templateData', generateFileId(ev'.node))
                   = OtherFiles(templateData, generateFileId(ev'.node))
        /\ (ev'.op = "saveEnd" /\ ev'.ok)
            => OtherFiles(store', ev'.id)
                   \subseteq OtherFiles(templateData', ev'.id)
      ]_vars

\* C32: the step in which handleDeleteFolder starts the delete of a folder
\* closes the open buffers of the File nodes under that folder and no other
\* buffer: a buffer of a sibling folder whose name starts with the deleted
\* folder's name stays open.
C32_DeleteFolderClosesOnlyDescendants ==
    [][ (ev'.op = "deleteFolder" /\ ev'.phase = "started")
            => OpenIds(openFiles')
                   = OpenIds(openFiles)
                         \ {generateFileId(f) : f \in FilesOf(ev'.node)} ]_vars

\* The paths of the File nodes of a tree
FilePathsOf(tree) ==
    UNION {{ChildPath(parentPath, LeafName(f)) :
               parentPath \in ParentPathsOf(f, tree, <<>>)} :
           f \in FilesOf(tree)}

\* C33: the step in which the delete of the File node at parent path P
\* replaces the Tree removes the node at P and no other File node (a File
\* node of the same name and extension in another folder stays), and the one
\* sandbox call the delete has issued is the remove of that node's path.
C33_DeleteFileRemovesOneNode ==
    [][ (ev'.op = "deleteFile" /\ ev'.phase = "replaced")
            => \A parentPath \in ParentPathsOf(ev'.node, templateData, <<>>) :
                   LET removed == ChildPath(parentPath, LeafName(ev'.node))
                   IN  /\ FilePathsOf(templateData')
                              = FilePathsOf(templateData) \ {removed}
                       /\ ev'.calls = << [call |-> "rm", path |-> removed] >>
      ]_vars

====
